---- MODULE Spec2Model ----
(***************************************************************************)
(* Facility location selection (apricot/facilityLocation.py): the gain     *)
(* kernels (dense, CSR sparse, cupy), _calculate_gains, _select_next and   *)
(* _initialize, over integer-valued nonnegative similarity matrices.       *)
(* Arrays are functions on 0..n-1, as numpy indexes them.                  *)
(***************************************************************************)
EXTENDS Integers, Sequences, FiniteSets, TLC

VARIABLES
    X,               \* the similarity matrix handed to fit(), dense view
    X_pairwise,      \* what the backend holds: X itself, or csr_matrix(X)
    sparse,          \* self.sparse
    cupy_,           \* self.cupy
    initial_subset,  \* self.initial_subset
    current_values,  \* self.current_values
    idxs,            \* self.idxs of the current round
    gains,           \* what _calculate_gains returned in the current round
    mask,            \* the mask argument select_next_cupy received
    ranking,         \* rows given to _select_next, in call order
    folded,          \* rows folded into current_values so far
    pc               \* "new", "ready", "gains" or "error"

vars == <<X, X_pairwise, sparse, cupy_, initial_subset, current_values,
          idxs, gains, mask, ranking, folded, pc>>

(* ---------------- bounds of the model ---------------- *)
MaxInit == 2
MaxCommits == 3
MaxRaise == 2

(* ---------------- numpy helpers ---------------- *)
Array(s) == [i \in 0..(Len(s) - 1) |-> s[i + 1]]

Size(a) == Cardinality(DOMAIN a)

Range(s) == {s[i] : i \in DOMAIN s}

zeros(n) == [k \in 0..(n - 1) |-> 0]

max(a, b) == IF a > b THEN a ELSE b

maximum(a, b) == [k \in DOMAIN b |-> max(a[k], b[k])]

RECURSIVE SumTo(_, _)
SumTo(a, n) == IF n = 0 THEN 0 ELSE SumTo(a, n - 1) + a[n - 1]

sum(a) == SumTo(a, Size(a))

(* ---------------- scipy.sparse.csr_matrix ---------------- *)
RECURSIVE NonzeroCols(_, _)
NonzeroCols(row, n) ==
    IF n = 0 THEN <<>>
    ELSE LET rest == NonzeroCols(row, n - 1)
         IN  IF row[n - 1] # 0 THEN Append(rest, n - 1) ELSE rest

RECURSIVE CsrBuild(_, _)
CsrBuild(M, n) ==
    IF n = 0 THEN [data |-> <<>>, indices |-> <<>>, indptr |-> <<0>>]
    ELSE LET p    == CsrBuild(M, n - 1)
             cols == NonzeroCols(M[n - 1], Size(M[n - 1]))
             vals == [j \in 1..Len(cols) |-> M[n - 1][cols[j]]]
         IN  [data    |-> p.data \o vals,
              indices |-> p.indices \o cols,
              indptr  |-> Append(p.indptr, Len(p.data) + Len(cols))]

csr_matrix(M) ==
    LET b == CsrBuild(M, Size(M))
    IN  [data    |-> Array(b.data),
         indices |-> Array(b.indices),
         indptr  |-> Array(b.indptr),
         shape   |-> <<Size(M), Size(M[0])>>]

getrow(S, i) ==
    LET start == S.indptr[i]
        end   == S.indptr[i + 1]
    IN  [data    |-> [j \in 0..(end - start - 1) |-> S.data[start + j]],
         indices |-> [j \in 0..(end - start - 1) |-> S.indices[start + j]],
         indptr  |-> Array(<<0, end - start>>),
         shape   |-> <<1, S.shape[2]>>]

\* faulty variant: the stored values packed from column 0, column ids ignored
toarray_packed(S) ==
    [r \in 0..(S.shape[1] - 1) |->
        [k \in 0..(S.shape[2] - 1) |->
            IF S.indptr[r] + k < S.indptr[r + 1] THEN S.data[S.indptr[r] + k] ELSE 0]]

toarray(S) ==
    [r \in 0..(S.shape[1] - 1) |->
        [k \in 0..(S.shape[2] - 1) |->
            LET js == {j \in S.indptr[r]..(S.indptr[r + 1] - 1) : S.indices[j] = k}
            IN  IF js = {} THEN 0 ELSE S.data[CHOOSE j \in js : TRUE]]]

(* ---------------- the gain kernels ---------------- *)
\* faulty variant: the row is taken by position in idxs, not by the candidate index
select_next_positional(M, gains0, cv, ids) ==
    [i \in DOMAIN ids |-> sum(maximum(M[i], cv))]

select_next(M, gains0, cv, ids) ==
    [i \in DOMAIN ids |-> sum(maximum(M[ids[i]], cv))]

RECURSIVE SparseAcc(_, _, _, _, _)
SparseAcc(X_data, X_indices, cv, start, end) ==
    IF start >= end THEN 0
    ELSE SparseAcc(X_data, X_indices, cv, start, end - 1)
         + max(X_data[end - 1], cv[X_indices[end - 1]])

select_next_sparse(X_data, X_indices, X_indptr, gains0, cv, ids) ==
    [i \in DOMAIN ids |->
        gains0[i] + SparseAcc(X_data, X_indices, cv,
                              X_indptr[ids[i]], X_indptr[ids[i] + 1])]

RECURSIVE ArgmaxTo(_, _)
ArgmaxTo(a, n) ==
    IF n = 1 THEN 0
    ELSE LET b == ArgmaxTo(a, n - 1) IN IF a[n - 1] > a[b] THEN n - 1 ELSE b

argmax(a) == ArgmaxTo(a, Size(a))

select_next_cupy(M, gains0, cv, mask0) ==
    LET rowsums == [r \in DOMAIN M |-> sum(maximum(M[r], cv))]
        fits    == Size(rowsums) = Size(gains0) \/ Size(rowsums) = 1
        g1      == [i \in DOMAIN gains0 |->
                       IF Size(rowsums) = 1 THEN rowsums[0] ELSE rowsums[i]]
        g2      == [i \in DOMAIN gains0 |-> g1[i] * (1 - mask0[i])]
    IN  IF ~fits \/ Size(gains0) = 0
        THEN [ok |-> FALSE, gains |-> gains0, ret |-> -1]
        ELSE [ok |-> TRUE, gains |-> g2, ret |-> argmax(g2)]

(* ---------------- FacilityLocationSelection ---------------- *)
\* faulty variant: every row is folded into the starting vector, the last one wins
InitLoopLast(sp, Xp, flat, n, cv) ==
    IF n = 0 THEN cv
    ELSE IF ~sp THEN maximum(Xp[flat[n - 1]], cv)
         ELSE maximum(toarray(getrow(Xp, flat[n - 1]))[0], cv)

\* the two loops of _initialize: the first n entries of flat, in order
RECURSIVE InitLoop(_, _, _, _, _)
InitLoop(sp, Xp, flat, n, cv) ==
    IF n = 0 THEN cv
    ELSE LET c == InitLoop(sp, Xp, flat, n - 1, cv)
             i == flat[n - 1]
         IN  IF ~sp THEN maximum(Xp[i], c)
             ELSE maximum(toarray(getrow(Xp, i))[0], c)

\* BaseGraphSelection._initialize: the coverage vector starts zero-filled
BaseInitialize(M) == zeros(Size(M[0]))

\* faulty variant: a two-dimensional subset is folded in before the error is raised
_initialize_late_raise(sp, Xp, sub, cv) ==
    IF sub.none THEN [ok |-> TRUE, cv |-> cv]
    ELSE IF sub.ndim = 2
         THEN [ok |-> FALSE, cv |-> InitLoop(sp, Xp, sub.flat, Size(sub.flat), cv)]
    ELSE IF sub.ndim = 1
         THEN [ok |-> TRUE, cv |-> InitLoop(sp, Xp, sub.flat, Size(sub.flat), cv)]
         ELSE [ok |-> FALSE, cv |-> cv]

_initialize(sp, Xp, sub, cv) ==
    IF sub.none THEN [ok |-> TRUE, cv |-> cv]
    ELSE IF sub.ndim = 2 THEN [ok |-> FALSE, cv |-> cv]
    ELSE IF sub.ndim = 1
         THEN [ok |-> TRUE, cv |-> InitLoop(sp, Xp, sub.flat, Size(sub.flat), cv)]
         ELSE [ok |-> FALSE, cv |-> cv]

\* faulty variant: the coverage total is not subtracted
_calculate_gains_absolute(cp, sp, Xp, cv, ids) ==
    LET g0 == zeros(Size(ids))
        k  == IF cp THEN select_next_cupy(Xp, g0, cv, ids)
              ELSE [ok    |-> TRUE,
                    ret   |-> -1,
                    gains |-> IF sp
                              THEN select_next_sparse(Xp.data, Xp.indices,
                                                      Xp.indptr, g0, cv, ids)
                              ELSE select_next(Xp, g0, cv, ids)]
    IN  [ok |-> k.ok, gains |-> k.gains]

_calculate_gains(cp, sp, Xp, cv, ids) ==
    LET g0 == zeros(Size(ids))
        k  == IF cp THEN select_next_cupy(Xp, g0, cv, ids)
              ELSE [ok    |-> TRUE,
                    ret   |-> -1,
                    gains |-> IF sp
                              THEN select_next_sparse(Xp.data, Xp.indices,
                                                      Xp.indptr, g0, cv, ids)
                              ELSE select_next(Xp, g0, cv, ids)]
    IN  [ok    |-> k.ok,
         gains |-> [i \in DOMAIN k.gains |-> k.gains[i] - sum(cv)]]

\* faulty variant: the elementwise minimum is kept
_select_next_minimum(sp, row, cv) ==
    IF sp THEN [k \in DOMAIN cv |-> IF toarray(row)[0][k] < cv[k]
                                     THEN toarray(row)[0][k] ELSE cv[k]]
    ELSE [k \in DOMAIN cv |-> IF row[k] < cv[k] THEN row[k] ELSE cv[k]]

\* faulty variant: the committed row replaces the coverage vector
_select_next_overwrite(sp, row, cv) ==
    IF sp THEN toarray(row)[0] ELSE row

_select_next(sp, row, cv) ==
    IF sp THEN maximum(toarray(row)[0], cv) ELSE maximum(row, cv)

\* X_pairwise[idx], the row the optimizer hands to _select_next
RowOf(sp, Xp, i) == IF sp THEN getrow(Xp, i) ELSE Xp[i]

(* ---------------- inputs ---------------- *)
Scenario ==
    Array(<<Array(<<5, 1, 0, 2>>), Array(<<1, 4, 1, 0>>),
            Array(<<0, 1, 3, 1>>), Array(<<2, 0, 1, 6>>)>>)

Matrices ==
    { Scenario,
      Array(<<Array(<<1, 0>>), Array(<<0, 1>>)>>),
      Array(<<Array(<<0, 0>>), Array(<<2, 1>>)>>),
      Array(<<Array(<<2, 2>>), Array(<<2, 2>>)>>),
      Array(<<Array(<<3, 1>>), Array(<<1, 2>>)>>),
      Array(<<Array(<<1, 0, 2>>), Array(<<0, 3, 0>>)>>),
      Array(<<Array(<<1>>), Array(<<2>>)>>),
      Array(<<Array(<<2, 0, 1>>), Array(<<0, 0, 0>>), Array(<<1, 3, 0>>)>>),
      Array(<<Array(<<0, 4>>)>>) }

Rows(M) == 0..(Size(M) - 1)

\* index arrays over the rows of M, of length at most n
IndexArrays(M, n) ==
    UNION {{Array(s) : s \in [1..l -> Rows(M)]} : l \in 0..n}

\* candidate sets: arrays of distinct row indices, in any order
CandidateSets ==
    [M \in Matrices |->
        {a \in IndexArrays(M, Size(M)) : \A i, j \in DOMAIN a : i # j => a[i] # a[j]}]

None == [none |-> TRUE, ndim |-> 0, flat |-> zeros(0)]

\* None, index arrays of up to MaxInit entries, and one array each of two and
\* of zero dimensions; the scenario matrix runs from zero coverage only
InitialSubsets(M) ==
    IF M = Scenario THEN {None}
    ELSE {None}
         \cup {[none |-> FALSE, ndim |-> 1, flat |-> a] : a \in IndexArrays(M, MaxInit)}
         \cup {[none |-> FALSE, ndim |-> d, flat |-> Array(<<Size(M) - 1>>)] : d \in {0, 2}}

Backends == {"dense", "sparse", "cupy"}

(* ---------------- the state machine ---------------- *)
Init ==
    /\ X \in Matrices
    /\ \E b \in Backends :
          /\ sparse = (b = "sparse")
          /\ cupy_ = (b = "cupy")
    /\ X_pairwise = IF sparse THEN csr_matrix(X) ELSE X
    /\ initial_subset \in InitialSubsets(X)
    /\ current_values = zeros(0)
    /\ idxs = zeros(0)
    /\ gains = zeros(0)
    /\ mask = zeros(0)
    /\ ranking = <<>>
    /\ folded = {}
    /\ pc = "new"

Initialize ==
    /\ pc = "new"
    /\ LET r == _initialize(sparse, X_pairwise, initial_subset, BaseInitialize(X))
       IN  /\ current_values' = r.cv
           /\ pc' = IF r.ok THEN "ready" ELSE "error"
           /\ folded' = IF r.ok /\ ~initial_subset.none
                        THEN Range(initial_subset.flat) ELSE {}
    /\ UNCHANGED <<X, X_pairwise, sparse, cupy_, initial_subset, idxs, gains,
                   mask, ranking>>

\* one gain computation per round: a second call in the same round would
\* read the same coverage vector and leave the state a first call leaves
CalculateGains(ids) ==
    /\ pc = "ready"
    /\ LET r == _calculate_gains(cupy_, sparse, X_pairwise, current_values, ids)
       IN  /\ gains' = r.gains
           /\ pc' = IF r.ok THEN "gains" ELSE "error"
    /\ idxs' = ids
    /\ mask' = IF cupy_ THEN ids ELSE mask
    /\ UNCHANGED <<X, X_pairwise, sparse, cupy_, initial_subset, current_values,
                   ranking, folded>>

SelectNext(idx) ==
    /\ pc \in {"ready", "gains"}
    /\ Len(ranking) < MaxCommits
    /\ current_values' = _select_next(sparse, RowOf(sparse, X_pairwise, idx),
                                      current_values)
    /\ ranking' = Append(ranking, idx)
    /\ folded' = folded \cup {idx}
    /\ idxs' = zeros(0)
    /\ gains' = zeros(0)
    /\ pc' = "ready"
    /\ UNCHANGED <<X, X_pairwise, sparse, cupy_, initial_subset, mask>>

Next ==
    \/ Initialize
    \/ \E ids \in CandidateSets[X] : CalculateGains(ids)
    \/ \E idx \in Rows(X) : SelectNext(idx)

Spec == Init /\ [][Next]_vars

(* ---------------- reference definitions of the properties ---------------- *)
Cols == DOMAIN X[0]

RECURSIVE SetSum(_, _)
SetSum(f, S) ==
    IF S = {} THEN 0
    ELSE LET k == CHOOSE e \in S : TRUE IN f[k] + SetSum(f, S \ {k})

\* sum_k max(X[r,k], cv[k]) - sum_k cv[k]
MarginalGain(r, cv) ==
    SetSum([k \in Cols |-> IF X[r][k] >= cv[k] THEN X[r][k] ELSE cv[k]], Cols)
    - SetSum(cv, Cols)

\* the largest X[i,k] over the rows i of S, 0 for no row
BestOf(S, k) ==
    IF S = {} THEN 0
    ELSE CHOOSE m \in {X[i][k] : i \in S} : \A i \in S : X[i][k] <= m

\* coverage states that dominate cv: one more row folded in, one column
\* raised, or all columns raised
Dominating(cv) ==
    {maximum(X[r], cv) : r \in Rows(X)}
    \cup {[k \in Cols |-> IF k \in S THEN cv[k] + d ELSE cv[k]] :
            S \in {{c} : c \in Cols} \cup {Cols}, d \in 1..MaxRaise}

InitArrays == [M \in Matrices |-> IndexArrays(M, MaxInit)]

\* only SelectNext appends to ranking
IsSelectNext == ranking' # ranking

\* from "ready" a step is a gain computation or a commit
IsCalculateGains == pc = "ready" /\ ranking' = ranking

\* cv is nonnegative and is the columnwise best of the rows of S
Represents(cv, S) ==
    /\ DOMAIN cv = Cols
    /\ \A k \in Cols : cv[k] >= 0 /\ cv[k] = BestOf(S, k)

(* ---------------- claims ---------------- *)

\* C1: the gains a backend returns equal the gains the other CPU backend
\* returns for the same matrix (dense X against csr_matrix(X)), the same
\* coverage vector and the same candidates.
C1_BackendEquivalence ==
    (pc = "gains" /\ ~cupy_) =>
        gains = _calculate_gains(FALSE, ~sparse,
                                 IF sparse THEN X ELSE csr_matrix(X),
                                 current_values, idxs).gains

\* C2: on the dense backend there is one gain per candidate, in the order of
\* idxs, and gains[i] = sum_k max(X[idxs[i],k], cv[k]) - sum_k cv[k]; on the
\* scenario matrix the gains from zero coverage are [8,6,5,9], and after
\* committing row 3 the coverage is [2,0,1,6] and the gains of {0,1,2} are
\* the row sums of max(X[idx], [2,0,1,6]) minus 9.
C2_DenseGains ==
    (pc = "gains" /\ ~cupy_ /\ ~sparse) =>
        /\ DOMAIN gains = DOMAIN idxs
        /\ \A i \in DOMAIN idxs : gains[i] = MarginalGain(idxs[i], current_values)
        /\ (X = Scenario /\ ranking = <<>> /\ idxs = Array(<<0, 1, 2, 3>>))
              => gains = Array(<<8, 6, 5, 9>>)
        /\ (X = Scenario /\ ranking = <<3>> /\ idxs = Array(<<0, 1, 2>>))
              => /\ current_values = Array(<<2, 0, 1, 6>>)
                 /\ gains = Array(<<13 - 9, 13 - 9, 12 - 9>>)

C2_Witness ==
    /\ pc = "gains" /\ ~cupy_ /\ ~sparse
    /\ X = Scenario /\ ranking = <<3>> /\ idxs = Array(<<0, 1, 2>>)

\* C3: no _select_next call lowers an entry of current_values, on the dense
\* and on the sparse path.
C3_MonotoneCoverage ==
    [][IsSelectNext =>
          \A k \in DOMAIN current_values : current_values'[k] >= current_values[k]]_vars

C3_Witness ==
    /\ sparse /\ Len(ranking) >= 2
    /\ ranking[1] # ranking[2]
    /\ current_values # X[ranking[1]]
    /\ current_values # X[ranking[2]]

\* C4: for a fixed matrix and candidate, the gain against a coverage state that
\* dominates the current one is at most the gain against the current one, on
\* the dense and on the sparse backend.
C4_DiminishingReturns ==
    (pc = "gains" /\ ~cupy_) =>
        \A B \in Dominating(current_values) :
            LET gB == _calculate_gains(FALSE, sparse, X_pairwise, B, idxs).gains
            IN  \A i \in DOMAIN idxs : gB[i] <= gains[i]

C4_Witness ==
    /\ pc = "gains" /\ sparse /\ Len(ranking) >= 1
    /\ \E B \in Dominating(current_values) :
          \E i \in DOMAIN idxs :
              _calculate_gains(FALSE, sparse, X_pairwise, B, idxs).gains[i] < gains[i]

\* C5: a candidate whose similarity row is all zero has gain exactly 0 in every
\* reachable coverage state, on the dense and on the sparse backend.
C5_ZeroRowZeroGain ==
    (pc = "gains" /\ ~cupy_) =>
        \A i \in DOMAIN idxs :
            (\A k \in Cols : X[idxs[i]][k] = 0) => gains[i] = 0

\* C6: on the cupy path the kernel's mask is 1 exactly at the rows already
\* selected (the rows given to _select_next), so a selected row has masked
\* gain 0 and every other row keeps its row sum.
C6_CupyMask ==
    (pc = "gains" /\ cupy_) =>
        /\ DOMAIN mask = Rows(X)
        /\ \A i \in Rows(X) : mask[i] = IF i \in Range(ranking) THEN 1 ELSE 0
        /\ \A i \in Rows(X) :
              gains[i] + SetSum(current_values, Cols)
                 = IF i \in Range(ranking) THEN 0
                   ELSE MarginalGain(i, current_values) + SetSum(current_values, Cols)

C8_InitOrderIndependent ==
    (pc \in {"ready", "gains"} /\ ranking = <<>>) =>
        IF initial_subset.none THEN current_values = zeros(Size(X[0]))
        ELSE \A q \in InitArrays[X] :
                Range(q) = Range(initial_subset.flat) =>
                    _initialize(sparse, X_pairwise,
                                [none |-> FALSE, ndim |-> 1, flat |-> q],
                                BaseInitialize(X)).cv = current_values

C8_Witness ==
    /\ pc = "ready" /\ ranking = <<>> /\ sparse /\ ~initial_subset.none
    /\ Size(initial_subset.flat) = 2
    /\ current_values # X[initial_subset.flat[0]]
    /\ current_values # X[initial_subset.flat[1]]

\* C9: a _select_next call with a row that was committed before leaves
\* current_values as it was.
C9_IdempotentRecommit ==
    [][(IsSelectNext /\ ranking'[Len(ranking')] \in Range(ranking)) =>
          current_values' = current_values]_vars

C9_Witness ==
    /\ Len(ranking) = 3 /\ ranking[1] = ranking[3] /\ ranking[2] # ranking[1]
    /\ current_values # X[ranking[1]]
    /\ current_values # X[ranking[2]]

\* C10: after _initialize and after every later step, every current_values[k] is >= 0 and is the largest
\* X[i,k] over the rows folded in so far (0 for none), and _calculate_gains
\* changes neither current_values nor the matrix.
C10_CoverageRepresentation ==
    [][/\ Represents(current_values', folded')
       /\ IsCalculateGains =>
             /\ current_values' = current_values
             /\ X' = X
             /\ X_pairwise' = X_pairwise]_vars

C10_Witness ==
    /\ pc = "gains" /\ sparse
    /\ ~initial_subset.none /\ Size(initial_subset.flat) >= 1
    /\ Len(ranking) >= 1
    /\ ranking[1] \notin Range(initial_subset.flat)
    /\ \E k \in Cols : current_values[k] > X[ranking[1]][k]
    /\ \E k \in Cols : current_values[k] > X[initial_subset.flat[0]][k]

====
